---- MODULE Spec2Model ----
(***************************************************************************)
(* Model of the request-dispatch core of the kra-etims SDK:                *)
(*   src/src/kra_etims/client.py        KRAeTIMSClient      (kind "sync")  *)
(*   src/src/kra_etims/async_client.py  AsyncKRAeTIMSClient (kind "async") *)
(*   src/src/kra_etims/middleware.py    sanitize_kra_url                    *)
(* One client instance is shared by the callers.  A caller is a thread     *)
(* (sync) or a task (async); every step between two suspension points of   *)
(* the code is one action.                                                 *)
(***************************************************************************)
EXTENDS Integers, Sequences, FiniteSets, TLC

\* ------------------------------------------------------------------ bounds
\* Callers (threads or tasks) sharing the client in SpecAuth.
NumCallers == 2
\* Clock ticks (of 30 seconds each) that may pass during a behaviour.
MaxTicks == 2
\* Calls the main thread makes one after another in Spec.
MaxCalls == 2
\* Stock lists in SpecLoop run up to one item past MaxChunks full chunks.
MaxChunks == 2
\* Invoices in an offline queue in SpecLoop.
MaxInvoices == 2
\* Symbols in a base URL or a pin in SpecUrl.
MaxLen == 3
\* Line items in an invoice in SpecDoc.
MaxItems == 2
\* Amounts in SpecDoc run up to MaxFives times 0.005.
MaxFives == 10

Callers == 1 .. NumCallers
\* The one thread that makes the calls of Spec.
MainThread == CHOOSE c \in Callers : \A d \in Callers : c <= d

\* --------------------------------------------------------- program constants
\* client.py:57 / async_client.py:59: the proactive refresh buffer, in seconds.
RefreshMargin == 60
\* client.py:69 / async_client.py:71: lifetime when the response declares none.
DefaultLifetime == 3600
\* client.py:85 / async_client.py:39: seconds an HTTP call may take.
RequestTimeout == 30
\* A call made without a timeout (requests' default, timeout=None).
NoTimeout == 0
\* client.py:158 / async_client.py:150: items per stock batch request.
ChunkSize == 500

\* ------------------------------------------------------------------ values
\* Python's None for an optional token (tokens are plain strings here).
None == "None"
\* Python's None for an optional str modelled as a sequence of characters.
NoneStr == <<"<None>">>

Kinds == {"sync", "async"}

\* --------------------------------------------------------------- strings
\* A str is a sequence of symbols.  "https://" and "http://" stand for the
\* literal scheme prefixes, " " and "\t" for whitespace, the rest for other
\* characters.
IsSpace(ch) == ch \in {" ", "\t"}

RECURSIVE LStrip(_)
LStrip(s) == IF s # <<>> /\ IsSpace(Head(s)) THEN LStrip(Tail(s)) ELSE s

RECURSIVE RStrip(_)
RStrip(s) ==
    IF s # <<>> /\ IsSpace(s[Len(s)]) THEN RStrip(SubSeq(s, 1, Len(s) - 1)) ELSE s

\* str.strip()
Strip(s) == RStrip(LStrip(s))

\* isinstance(arg, str)
IsStr(v) == v # NoneStr

\* arg.startswith("http://") or arg.startswith("https://")
LooksLikeUrl(s) == s # <<>> /\ Head(s) \in {"http://", "https://"}

\* What the sanitize_kra_url wrapper does to one positional or keyword
\* argument: only a str that starts with a URL scheme is stripped.
SanitizeArgNoCheck(v) == IF IsStr(v) THEN Strip(v) ELSE v

SanitizeArg(v) == IF IsStr(v) /\ LooksLikeUrl(v) THEN Strip(v) ELSE v

\* `if idempotency_key:` -- None and the empty str are falsy.
Truthy(v) == IsStr(v) /\ v # <<>>

\* str.rstrip('/') and str.lstrip('/')
RECURSIVE RStripSlash(_)
RStripSlash(s) ==
    IF s # <<>> /\ s[Len(s)] = "/" THEN RStripSlash(SubSeq(s, 1, Len(s) - 1)) ELSE s

RECURSIVE LStripSlash(_)
LStripSlash(s) == IF s # <<>> /\ Head(s) = "/" THEN LStripSlash(Tail(s)) ELSE s

\* default_url = "https://taxid-production.up.railway.app"
DefaultUrl == <<"https://", "taxid-production.up.railway.app">>

\* __init__: env_url = (os.getenv("TAXID_API_URL") or "").strip();
\* raw_url = env_url or base_url or default_url;
\* self.base_url = raw_url.strip().rstrip('/')
EnvUrl(env) == IF IsStr(env) THEN Strip(env) ELSE <<>>

RawUrlArgFirst(env, arg) ==
    IF Truthy(arg) THEN arg
    ELSE IF EnvUrl(env) # <<>> THEN EnvUrl(env)
    ELSE DefaultUrl

RawUrl(env, arg) ==
    IF EnvUrl(env) # <<>> THEN EnvUrl(env)
    ELSE IF Truthy(arg) THEN arg
    ELSE DefaultUrl

ResolveBaseUrl(env, arg) == RStripSlash(Strip(RawUrl(env, arg)))

\* The text of a path: a route, written as its leading slash and one symbol
\* for the rest (the symbol is the route's name), followed by the path
\* parameter if the operation has one (f"/v2/etims/compliance/{pin}").
PathText(route, param) == <<"/", route>> \o (IF IsStr(param) THEN param ELSE <<>>)

\* _request: url = f"{self.base_url.rstrip('/')}/{path.lstrip('/')}"
Url(base, path) == RStripSlash(base) \o <<"/">> \o LStripSlash(path)

\* _authenticate: f"{self.base_url}/oauth/token"
TokenUrl(base) == base \o <<"/", "/oauth/token">>


\* ------------------------------------------------- the transport libraries
\* What a call into the HTTP library can end in.  A transport failure is the
\* library's exception class with the phase it happened in: "connect" (the
\* connection was never established: refused, DNS, connect timeout) or
\* "midflight" (after the request may have been transmitted).
\* requests (sync): ConnectTimeout derives from ConnectionError and Timeout,
\* ReadTimeout from Timeout; ChunkedEncodingError (connection broken while
\* the response body is read) derives from RequestException only.
\* httpx (async): every class below derives from httpx.RequestError.
TransportFailures(k) ==
    IF k = "sync"
    THEN { [exc |-> "ConnectionError",      phase |-> "connect"],
           [exc |-> "ConnectTimeout",       phase |-> "connect"],
           [exc |-> "ReadTimeout",          phase |-> "midflight"],
           [exc |-> "ConnectionError",      phase |-> "midflight"],
           [exc |-> "ChunkedEncodingError", phase |-> "midflight"] }
    ELSE { [exc |-> "ConnectError",   phase |-> "connect"],
           [exc |-> "ConnectTimeout", phase |-> "connect"],
           [exc |-> "ReadTimeout",    phase |-> "midflight"],
           [exc |-> "WriteTimeout",   phase |-> "midflight"],
           [exc |-> "PoolTimeout",    phase |-> "midflight"],
           [exc |-> "ReadError",      phase |-> "midflight"] }

Bodies == {"bodyA", "bodyB"}
Tokens == {"tokA", "tokB"}
\* expires_in values a token response may declare (0 stands for "absent").
Lifetimes == {0, 30, 90}

\* An outcome of one HTTP call: a transport failure or a response.
Failure(f) ==
    [type |-> "transport", exc |-> f.exc, phase |-> f.phase, status |-> 0,
     json |-> FALSE, text |-> "", access_token |-> None, expires_in |-> 0]

Response(s, j, b, t, e) ==
    [type |-> "response", exc |-> "", phase |-> "", status |-> s,
     json |-> j, text |-> b, access_token |-> t, expires_in |-> e]

\* Outcomes of POST /oauth/token: a failure, a non-200 status with a body, a
\* 200 whose body is no JSON, or a 200 with a JSON object that may or may
\* not hold access_token and expires_in.
TokenOutcomes(k) ==
    { Failure(f) : f \in TransportFailures(k) }
    \cup { Response(401, FALSE, b, None, 0) : b \in Bodies }
    \cup { Response(201, TRUE, "bodyA", "tokA", 0) }
    \cup { Response(200, FALSE, "bodyA", None, 0) }
    \cup { Response(200, TRUE, "bodyA", "tokA", e) : e \in Lifetimes }
    \cup { Response(200, TRUE, "bodyA", t, 0) : t \in Tokens \cup {None} }

\* The outcomes the concurrent callers of SpecAuth are answered with: one
\* of each way _authenticate treats an outcome.
AuthOutcomes(k) ==
    { o \in TokenOutcomes(k) :
        /\ o.type = "transport" => o.phase = "connect" /\ o.exc # "ConnectTimeout"
        /\ o.text # "bodyB"
        /\ o.status # 201 }

\* --------------------------------------------------------------- results
\* What a call hands back to its caller: "ok" (_authenticate returned),
\* "json" (_request returned resp.json()) or "raise" with the exception
\* class, and what the exception carries.
Ok == [kind |-> "ok", exc |-> "", status |-> 0, body |-> "", cause |-> ""]
NoResult == [kind |-> "none", exc |-> "", status |-> 0, body |-> "", cause |-> ""]
Json(s, b) == [kind |-> "json", exc |-> "", status |-> s, body |-> b, cause |-> ""]
Raise(e, s, b, c) == [kind |-> "raise", exc |-> e, status |-> s, body |-> b, cause |-> c]

\* ------------------------------------------------------------------ state
VARIABLES
    kind,          \* which client class the instance is
    access_token,  \* self._access_token
    token_expiry,  \* self._token_expiry
    lock,          \* self._lock: 0 when free, else the caller holding it
    clock,         \* time.time()
    pc,            \* where each caller is
    call,          \* the operation each caller is in, with its arguments
    now,           \* _authenticate's local `now` of each caller
    result,        \* what each caller's last call returned or raised
    calls,         \* how many calls each caller has started
    wire,          \* every request handed to the HTTP library, in order
    lastToken,     \* history: the latest outcome of a token request
    lastReply,     \* history: the latest outcome of a dispatched request
    grants,        \* history: what the token responses so far granted
    config,        \* what the client was constructed from: environment, arguments
    loop,          \* the batch or flush operation in progress, with its results
    session,       \* the HTTP session of the client: its connection pool, scope
    built          \* the documents constructed so far: line items, invoice

vars == <<kind, access_token, token_expiry, lock, clock, pc, call, now,
          result, calls, wire, lastToken, lastReply, grants, config, loop,
          session, built>>

NoCall == [op |-> "", method |-> "", path |-> "", param |-> NoneStr, json |-> <<>>,
           idempotency_key |-> NoneStr, raw_key |-> NoneStr, doc |-> <<>>]
AuthCall == [op |-> "_authenticate", method |-> "", path |-> "", param |-> NoneStr,
             json |-> <<>>, idempotency_key |-> NoneStr, raw_key |-> NoneStr,
             doc |-> <<>>]

\* A client constructed from client_id and client_secret alone, with no API
\* key in the environment.
NoConfig ==
    [TAXID_API_URL |-> NoneStr, base_url_arg |-> NoneStr,
     TAXID_API_KEY |-> NoneStr, api_key |-> NoneStr, base_url |-> DefaultUrl]

\* The session before construction, and as __init__ leaves it:
\* requests.Session() / httpx.AsyncClient(...) holding a connection pool,
\* the client not inside a `with` block.
NoSession == [pool |-> "none", scoped |-> FALSE]
OpenSession == [pool |-> "open", scoped |-> FALSE]

\* No document constructed yet.
NoInvoice == [cls |-> "", totAmt |-> 0, itemList |-> <<>>]
NoDocs == [items |-> <<>>, invoice |-> NoInvoice]

\* No batch or flush operation in progress.
NoLoop == [op |-> "", items |-> <<>>, i |-> 0, results |-> <<>>, ends |-> <<>>]

\* History of the token responses since the callers arrived (in Spec: since
\* the current call began): invalid0 is whether they arrived at an absent or
\* expired token, allGood whether every outcome so far was a
\* 200 carrying an access token, minExpiry the earliest expiry stored so far.
NoGrants(tok, exp) ==
    [invalid0 |-> (tok = None \/ exp < RefreshMargin), allGood |-> TRUE, minExpiry |-> 1000000]

NoOutcome == [by |-> 0, n |-> 0, now |-> 0, o |-> Response(0, FALSE, "", None, 0)]

\* ----------------------------------------------------------- Authenticator
\* `with self._lock:` can be entered only while nobody holds the lock.
LockFreeAlways == TRUE

LockFree == lock = 0

\* `not self._access_token or (self._token_expiry - now) < 60`
NeedsRefreshNoMargin(tok, exp, t) == tok = None \/ (exp - t) < 0

NeedsRefresh(tok, exp, t) == tok = None \/ (exp - t) < RefreshMargin

\* data.get("expires_in", 3600)
ExpiresInNoDefault(o) == o.expires_in

ExpiresIn(o) == IF o.expires_in = 0 THEN DefaultLifetime ELSE o.expires_in

\* The timeout the token request runs under: the sync session.post passes
\* none, the async client was built with timeout=30.0 for every request.
TokenTimeout(k) == IF k = "async" THEN RequestTimeout ELSE NoTimeout

\* The X-TIaaS-Service header the session (requests.Session, or
\* httpx.AsyncClient) was given at construction; a request made through the
\* session carries it, one made around the session would not.
SessionService == "Handshake"
NoService == ""

\* The request _authenticate hands to the HTTP library: self._session.post
\* / self._client.post.
TokenRequestNoSession(c) ==
    [by |-> c, n |-> calls[c], endpoint |-> "/oauth/token", method |-> "POST",
     authorization |-> "Basic", bearer |-> None, idempotency_key |-> NoneStr,
     passed_key |-> NoneStr, x_api_key |-> NoneStr, json |-> <<>>,
     timeout |-> TokenTimeout(kind), url |-> TokenUrl(config.base_url),
     x_tiaas_service |-> NoService]

TokenRequest(c) ==
    [by |-> c, n |-> calls[c], endpoint |-> "/oauth/token", method |-> "POST",
     authorization |-> "Basic", bearer |-> None, idempotency_key |-> NoneStr,
     passed_key |-> NoneStr, x_api_key |-> NoneStr, json |-> <<>>,
     timeout |-> TokenTimeout(kind), url |-> TokenUrl(config.base_url),
     x_tiaas_service |-> SessionService]

\* What _authenticate ends with, given the outcome of its token request: the
\* exception it raises, or Ok.
AuthResultUnwrapped(k, o) ==
    IF o.type = "transport" THEN Raise(o.exc, 0, "", "")
    ELSE IF o.status # 200 THEN Raise("KRAeTIMSAuthError", o.status, "", "")
    ELSE IF ~o.json THEN Raise("JSONDecodeError", 0, "", "")
    ELSE Ok

AuthResultAlwaysOk(k, o) == Ok

AuthResult(k, o) ==
    IF o.type = "transport"
    THEN IF k = "async"
         THEN Raise("KRAeTIMSAuthError", 0, "", o.exc)  \* except httpx.RequestError
         ELSE Raise(o.exc, 0, "", "")                   \* no handler in client.py
    ELSE IF o.status # 200
         THEN Raise("KRAeTIMSAuthError", o.status, o.text, "")
         ELSE IF ~o.json
              THEN Raise("JSONDecodeError", 0, "", "")  \* resp.json() fails
              ELSE Ok

\* The credential state _authenticate leaves, given the outcome of its token
\* request, the credential state before and its local `now`.
AuthStoreEarly(k, o, tok, exp, t) ==
    IF o.type = "response" THEN <<o.access_token, t + ExpiresIn(o)>> ELSE <<tok, exp>>

AuthStoreClearOnFailure(k, o, tok, exp, t) ==
    IF AuthResult(k, o) = Ok
    THEN <<o.access_token, t + ExpiresIn(o)>>
    ELSE <<None, 0>>

AuthStore(k, o, tok, exp, t) ==
    IF AuthResult(k, o) = Ok
    THEN <<o.access_token, t + ExpiresIn(o)>>
    ELSE <<tok, exp>>

\* The value of the lock once the with-block of caller c has ended with r:
\* `with self._lock:` / `async with self._lock:` releases it on a normal
\* end and on an exception alike.
ReleasedOnReturnOnly(c, r) == IF r.kind = "raise" THEN c ELSE 0

Released(c, r) == 0

\* Caller c reaches `with self._lock:` and takes the lock.
Acquire(c) ==
    /\ pc[c] = "waiting"
    /\ LockFree
    /\ lock' = c
    /\ pc' = [pc EXCEPT ![c] = "locked"]
    /\ UNCHANGED <<built, session, config, loop, kind, access_token, token_expiry, clock, call, now, result,
                   calls, wire, lastToken, lastReply, grants>>

\* _authenticate returned without raising: a direct call is over, a dispatch
\* goes on to build its request.
AfterAuth(c) == IF call[c].op = "_authenticate" THEN "done" ELSE "authed"

\* Caller c, holding the lock, reads the time and decides: either nothing to
\* do (the with-block ends, the lock is released) or the token request is
\* handed to the HTTP library.
Check(c) ==
    /\ pc[c] = "locked"
    /\ now' = [now EXCEPT ![c] = clock]
    /\ IF NeedsRefresh(access_token, token_expiry, clock)
       THEN /\ pc' = [pc EXCEPT ![c] = "posting"]
            /\ wire' = Append(wire, TokenRequest(c))
            /\ UNCHANGED <<lock, result>>
       ELSE /\ pc' = [pc EXCEPT ![c] = AfterAuth(c)]
            /\ lock' = 0
            /\ result' = [result EXCEPT ![c] = IF AfterAuth(c) = "done" THEN Ok ELSE @]
            /\ UNCHANGED wire
    /\ UNCHANGED <<built, session, config, loop, kind, access_token, token_expiry, clock, call, calls,
                   lastToken, lastReply, grants>>

\* The token request of caller c ends with outcome o; the with-block ends,
\* normally or by the exception, and the lock is released.
TokenRespond(c, o) ==
    /\ pc[c] = "posting"
    /\ LET r == AuthResult(kind, o)
           st == AuthStore(kind, o, access_token, token_expiry, now[c])
       IN
       /\ access_token' = st[1]
       /\ token_expiry' = st[2]
       /\ IF r = Ok
          THEN /\ pc' = [pc EXCEPT ![c] = AfterAuth(c)]
               /\ result' = [result EXCEPT ![c] = IF AfterAuth(c) = "done" THEN Ok ELSE @]
          ELSE /\ pc' = [pc EXCEPT ![c] = "done"]
               /\ result' = [result EXCEPT ![c] = r]
       /\ grants' =
            [grants EXCEPT
               !.allGood = @ /\ o.type = "response" /\ o.status = 200 /\ o.json
                             /\ o.access_token # None,
               !.minExpiry = IF o.type = "response" /\ o.status = 200 /\ o.json
                                /\ now[c] + ExpiresIn(o) < @
                             THEN now[c] + ExpiresIn(o) ELSE @]
    /\ lock' = Released(c, AuthResult(kind, o))
    /\ lastToken' = [by |-> c, n |-> lastToken.n + 1, now |-> now[c], o |-> o]
    /\ UNCHANGED <<built, session, config, loop, kind, clock, call, now, calls, wire, lastReply>>

\* Thirty seconds pass.
Tick ==
    /\ clock < 30 * MaxTicks
    /\ clock' = clock + 30
    /\ UNCHANGED <<built, session, config, loop, kind, access_token, token_expiry, lock, pc, call, now,
                   result, calls, wire, lastToken, lastReply, grants>>

\* ------------------------------------------- SpecAuth: concurrent callers
\* Credential states a client can be in when the callers arrive: fresh from
\* construction, or holding the token of an earlier refresh that expires 30,
\* 60 or 3600 seconds from now.
InitCreds == {<<None, 0>>, <<"tok0", 30>>, <<"tok0", 60>>, <<"tok0", 3600>>}

InitAuth ==
    /\ kind \in Kinds
    /\ \E cr \in InitCreds :
         /\ access_token = cr[1]
         /\ token_expiry = cr[2]
         /\ grants = NoGrants(cr[1], cr[2])
    /\ lock = 0
    /\ clock = 0
    /\ pc = [c \in Callers |-> "waiting"]
    /\ call = [c \in Callers |-> AuthCall]
    /\ now = [c \in Callers |-> 0]
    /\ result = [c \in Callers |-> NoResult]
    /\ calls = [c \in Callers |-> 1]
    /\ wire = <<>>
    /\ lastToken = NoOutcome
    /\ lastReply = NoOutcome
    /\ config = NoConfig
    /\ loop = NoLoop
    /\ session = OpenSession
    /\ built = NoDocs

NextAuth ==
    \/ \E c \in Callers : Acquire(c)
    \/ \E c \in Callers : Check(c)
    \/ \E c \in Callers : \E o \in AuthOutcomes(kind) : TokenRespond(c, o)
    \/ Tick

SpecAuth == InitAuth /\ [][NextAuth]_vars


\* ------------------------------------------------------- Request Dispatcher
\* HTTP methods the callers pass ("patch" exercises method.upper()).
Methods == {"GET", "POST", "patch"}

\* Idempotency keys the callers pass: none, the empty str, a plain key, a
\* key with surrounding whitespace, a URL-shaped key with trailing whitespace.
Keys == { NoneStr, <<>>, <<"k", "1">>, <<" ", "k", " ">>, <<"https://", "k", " ">> }

Statuses == {200, 304, 404, 503}

\* Outcomes of the request a dispatch sends: a failure, or a response with a
\* status, a body that is or is not JSON, and a text.
DispatchOutcomes(k) ==
    { Failure(f) : f \in TransportFailures(k) }
    \cup { Response(s, TRUE, b, None, 0) : s \in Statuses, b \in Bodies }
    \cup { Response(s, FALSE, "bodyA", None, 0) : s \in Statuses }

\* method.upper()
Upper(m) == IF m = "patch" THEN "PATCH" ELSE m

\* method.upper() in ["POST", "PUT", "DELETE", "PATCH"]
IsMutating(m) == Upper(m) \in {"POST", "PUT", "DELETE", "PATCH"}

\* resp.raise_for_status(): requests raises HTTPError for 400..599 only,
\* httpx raises HTTPStatusError for every status outside 200..299.
RaisesForStatus(k, s) ==
    IF k = "sync" THEN 400 <= s /\ s < 600 ELSE ~(200 <= s /\ s <= 299)

StatusErrorClass(k) == IF k = "sync" THEN "HTTPError" ELSE "HTTPStatusError"

\* The body of the try block of _request, given the outcome of
\* session.request / client.request: what it returns or raises.
TryBody(k, o) ==
    IF o.type = "transport" THEN Raise(o.exc, 0, "", "")
    ELSE IF o.status = 503 THEN Raise("KRAConnectivityTimeoutError", 0, "", "")
    ELSE IF RaisesForStatus(k, o.status)
         THEN Raise(StatusErrorClass(k), o.status, o.text, "")
    ELSE IF ~o.json THEN Raise("JSONDecodeError", 0, "", "")
    ELSE Json(o.status, o.text)

\* What the mid-flight handler raises, by method.
ByMethod(m) ==
    IF IsMutating(m)
    THEN Raise("TIaaSAmbiguousStateError", 0, "", "")
    ELSE Raise("TIaaSUnavailableError", 0, "", "")

\* The except clauses of KRAeTIMSClient._request applied to what the try
\* block raised.
ExceptSync(m, r) ==
    IF r.exc \in {"ConnectionError", "ConnectTimeout", "ReadTimeout"}
    THEN ByMethod(m)                        \* except (ConnectionError, Timeout)
    ELSE IF r.exc \in {"ChunkedEncodingError", "HTTPError", "JSONDecodeError"}
    THEN IF r.exc = "HTTPError" /\ r.status = 503   \* except RequestException
         THEN Raise("KRAConnectivityTimeoutError", 0, "", "")
         ELSE r
    ELSE r

\* The except clauses of AsyncKRAeTIMSClient._request.
ExceptAsync(m, r) ==
    IF r.exc \in {"ConnectError", "ConnectTimeout"}
    THEN Raise("TIaaSUnavailableError", 0, "", "")
    ELSE IF r.exc \in {"ReadTimeout", "WriteTimeout", "PoolTimeout", "ReadError"}
    THEN ByMethod(m)
    ELSE IF r.exc = "HTTPStatusError"
    THEN IF r.status = 503
         THEN Raise("KRAConnectivityTimeoutError", 0, "", "")
         ELSE r
    ELSE r

\* What _request returns or raises once its request has outcome o.
DispatchResultNo503(k, m, o) ==
    LET r == IF o.type = "response" /\ o.status = 503
             THEN Raise(StatusErrorClass(k), o.status, o.text, "")
             ELSE TryBody(k, o)
    IN IF r.kind # "raise" \/ (o.type = "response" /\ o.status = 503) THEN r
       ELSE IF k = "sync" THEN ExceptSync(m, r) ELSE ExceptAsync(m, r)

DispatchResult(k, m, o) ==
    LET r == TryBody(k, o) IN
    IF r.kind # "raise" THEN r
    ELSE IF k = "sync" THEN ExceptSync(m, r) ELSE ExceptAsync(m, r)

\* The headers _request builds, as the request handed to the HTTP library:
\* the bearer token read from the client at that moment, and the idempotency
\* key header only for a truthy key.  passed_key records what the caller
\* passed.
DispatchRequestSharedHeaders(c) ==
    LET last == CHOOSE d \in Callers :
                  /\ call[d].op # ""
                  /\ \A e \in Callers : call[e].op # "" => e <= d
    IN
    [by |-> c, n |-> calls[c], endpoint |-> call[c].path, method |-> call[c].method,
     authorization |-> "Bearer", bearer |-> access_token,
     idempotency_key |-> IF Truthy(call[last].idempotency_key)
                         THEN call[last].idempotency_key ELSE NoneStr,
     passed_key |-> call[c].raw_key, x_api_key |-> NoneStr, json |-> call[c].json,
     timeout |-> RequestTimeout,
     url |-> Url(config.base_url, PathText(call[c].path, call[c].param)),
     x_tiaas_service |-> SessionService]

DispatchRequestInvoiceKey(c) ==
    [by |-> c, n |-> calls[c], endpoint |-> call[c].path, method |-> call[c].method,
     authorization |-> "Bearer", bearer |-> access_token,
     idempotency_key |-> IF call[c].path = "/v2/etims/sale"
                         THEN call[c].json ELSE NoneStr,
     passed_key |-> call[c].raw_key, x_api_key |-> NoneStr, json |-> call[c].json,
     timeout |-> RequestTimeout,
     url |-> Url(config.base_url, PathText(call[c].path, call[c].param)),
     x_tiaas_service |-> SessionService]

DispatchRequestWithKey(c) ==
    [by |-> c, n |-> calls[c], endpoint |-> call[c].path, method |-> call[c].method,
     authorization |-> "Bearer", bearer |-> access_token,
     idempotency_key |-> IF Truthy(call[c].idempotency_key)
                         THEN call[c].idempotency_key ELSE NoneStr,
     passed_key |-> call[c].raw_key, x_api_key |-> config.TAXID_API_KEY,
     json |-> call[c].json, timeout |-> RequestTimeout,
     url |-> Url(config.base_url, PathText(call[c].path, call[c].param)),
     x_tiaas_service |-> SessionService]

DispatchRequest(c) ==
    [by |-> c, n |-> calls[c], endpoint |-> call[c].path, method |-> call[c].method,
     authorization |-> "Bearer", bearer |-> access_token,
     idempotency_key |-> IF Truthy(call[c].idempotency_key)
                         THEN call[c].idempotency_key ELSE NoneStr,
     passed_key |-> call[c].raw_key, x_api_key |-> NoneStr, json |-> call[c].json,
     timeout |-> RequestTimeout,
     url |-> Url(config.base_url, PathText(call[c].path, call[c].param)),
     x_tiaas_service |-> SessionService]

\* A caller starts an operation: _authenticate directly, _request with a
\* method, or submit_sale with an idempotency key.  _request and submit_sale
\* are wrapped by sanitize_kra_url, which rewrites their arguments.
Call(c, op, m, key) ==
    /\ pc[c] \in {"idle", "done"}
    /\ calls[c] < MaxCalls
    /\ calls' = [calls EXCEPT ![c] = @ + 1]
    /\ call' = [call EXCEPT ![c] =
                  IF op = "_authenticate" THEN AuthCall
                  ELSE [op |-> op, method |-> m,
                        path |-> IF op = "submit_sale" THEN "/v2/etims/sale"
                                 ELSE "target",
                        param |-> NoneStr, json |-> <<>>,
                        idempotency_key |-> IF op = "submit_sale"
                                            THEN SanitizeArg(SanitizeArg(key))
                                            ELSE SanitizeArg(key),
                        raw_key |-> key, doc |-> <<>>]]
    /\ pc' = [pc EXCEPT ![c] = "waiting"]
    /\ result' = [result EXCEPT ![c] = NoResult]
    /\ lastToken' = NoOutcome
    /\ lastReply' = NoOutcome
    /\ grants' = NoGrants(access_token, token_expiry)
    /\ UNCHANGED <<built, session, config, loop, kind, access_token, token_expiry, lock, clock, now, wire>>

\* _request, after _authenticate returned, builds the headers and hands the
\* request to the HTTP library.
Send(c) ==
    /\ pc[c] = "authed"
    /\ wire' = Append(wire, DispatchRequest(c))
    /\ pc' = [pc EXCEPT ![c] = "sent"]
    /\ UNCHANGED <<built, session, config, loop, kind, access_token, token_expiry, lock, clock, call, now,
                   result, calls, lastToken, lastReply, grants>>

\* Where _request goes once the outcome of its request is mapped: it
\* returns or raises, whatever the outcome; nothing is sent again.
AfterReplyRetry(r) == IF r.kind = "raise" THEN "authed" ELSE "done"

AfterReply(r) == "done"

\* The request of caller c ends with outcome o and _request returns or
\* raises.
Reply(c, o) ==
    /\ pc[c] = "sent"
    /\ result' = [result EXCEPT ![c] = DispatchResult(kind, call[c].method, o)]
    /\ lastReply' = [by |-> c, n |-> calls[c], now |-> clock, o |-> o]
    /\ pc' = [pc EXCEPT ![c] = AfterReply(DispatchResult(kind, call[c].method, o))]
    /\ UNCHANGED <<built, session, config, loop, kind, access_token, token_expiry, lock, clock, call, now,
                   calls, wire, lastToken, grants>>

\* ------------------------------- Spec: one thread, one call after another
\* No time passes in Spec, so a lifetime of 90 seconds acts like the default.
SeqTokenOutcomes(k) ==
    { o \in TokenOutcomes(k) : o.expires_in # 90 /\ o.access_token # "tokB" }

Init ==
    /\ kind \in Kinds
    /\ access_token = None
    /\ token_expiry = 0
    /\ grants = NoGrants(None, 0)
    /\ lock = 0
    /\ clock = 0
    /\ pc = [c \in Callers |-> IF c = MainThread THEN "idle" ELSE "off"]
    /\ call = [c \in Callers |-> NoCall]
    /\ now = [c \in Callers |-> 0]
    /\ result = [c \in Callers |-> NoResult]
    /\ calls = [c \in Callers |-> 0]
    /\ wire = <<>>
    /\ lastToken = NoOutcome
    /\ lastReply = NoOutcome
    /\ config = NoConfig
    /\ loop = NoLoop
    /\ session = OpenSession
    /\ built = NoDocs

Next ==
    \/ \E c \in Callers : Call(c, "_authenticate", "", NoneStr)
    \/ \E c \in Callers : \E m \in Methods : Call(c, "_request", m, NoneStr)
    \/ \E c \in Callers : \E key \in Keys : Call(c, "submit_sale", "POST", key)
    \/ \E c \in Callers : Acquire(c)
    \/ \E c \in Callers : Check(c)
    \/ \E c \in Callers : \E o \in SeqTokenOutcomes(kind) : TokenRespond(c, o)
    \/ \E c \in Callers : Send(c)
    \/ \E c \in Callers : \E o \in DispatchOutcomes(kind) : Reply(c, o)

Spec == Init /\ [][Next]_vars

\* ------------------------------------------------ claims about SpecAuth
AllDone == \A c \in Callers : pc[c] = "done"

\* Requests handed to the HTTP library for the token endpoint so far.
TokenPosts == Cardinality({i \in DOMAIN wire : wire[i].endpoint = "/oauth/token"})

\* Every caller returned normally and the client holds the token of the
\* latest token response.
AllObserveRefreshed ==
    /\ \A c \in Callers : result[c] = Ok
    /\ lastToken.n > 0
    /\ access_token # None
    /\ access_token = lastToken.o.access_token

\* Caller c is between taking the lock and the end of its with-block.
InRegion(c) == pc[c] \in {"locked", "posting"}

C2_MutualExclusion ==
    /\ \A c, d \in Callers : (InRegion(c) /\ InRegion(d)) => c = d
    /\ \A c \in Callers : InRegion(c) => lock = c
    /\ Cardinality({c \in Callers : pc[c] = "posting"}) <= 1

\* One caller has its token request in flight while another waits for the
\* lock.
C2_Witness ==
    \E c, d \in Callers : c # d /\ pc[c] = "posting" /\ pc[d] = "waiting" /\ lock = c

\* C3 as stated: at the moment _authenticate returns without raising, a
\* token is present and its expiry is at least 60 seconds away, whatever the
\* token response declared and however long the request took.
C3_ValidOnReturn ==
    [][\A c \in Callers :
         (pc[c] \in {"locked", "posting"} /\ pc'[c] \in {"done", "authed"}
            /\ (pc'[c] = "done" => result'[c] = Ok))
         => (access_token' # None /\ token_expiry' - clock' >= RefreshMargin)]_vars

\* ---------------------------------------------------- claims about Spec
\* The outcome o is a response whose status is outside 200..299.
NonSuccess(o) == o.type = "response" /\ ~(200 <= o.status /\ o.status <= 299)

\* C4 as stated: a mid-flight transport failure of a dispatch yields
\* TIaaSAmbiguousStateError for POST, PUT, PATCH and DELETE and
\* TIaaSUnavailableError for every other method, in both clients.
C4_MidflightByMethod ==
    \A c \in Callers :
        (lastReply.by = c /\ lastReply.o.type = "transport"
           /\ lastReply.o.phase = "midflight")
        => /\ result[c].kind = "raise"
           /\ result[c].exc = IF IsMutating(call[c].method)
                              THEN "TIaaSAmbiguousStateError"
                              ELSE "TIaaSUnavailableError"

\* C5 as stated: a failure to establish the connection yields
\* TIaaSUnavailableError for every method, in both clients.
C5_ConnectFailureUnavailable ==
    \A c \in Callers :
        (lastReply.by = c /\ lastReply.o.type = "transport"
           /\ lastReply.o.phase = "connect")
        => (result[c].kind = "raise" /\ result[c].exc = "TIaaSUnavailableError")

\* C6: a response with status 503 to a dispatch with any method makes
\* _request raise KRAConnectivityTimeoutError, in both clients.
C6_503IsConnectivityCeiling ==
    \A c \in Callers :
        (lastReply.by = c /\ lastReply.o.type = "response" /\ lastReply.o.status = 503)
        => (result[c].kind = "raise" /\ result[c].exc = "KRAConnectivityTimeoutError")

\* A mutating dispatch of the second call was answered 503.
C6_Witness ==
    \E c \in Callers :
        /\ lastReply.by = c
        /\ lastReply.o.status = 503
        /\ IsMutating(call[c].method)
        /\ calls[c] = 2
        /\ result[c].exc = "KRAConnectivityTimeoutError"

\* C7 as stated: a response with a non-2xx status other than 503 makes
\* _request raise the generic HTTP status error carrying the status and the
\* body; it is never returned as a JSON result.
C7_OtherStatusIsGenericError ==
    \A c \in Callers :
        (lastReply.by = c /\ NonSuccess(lastReply.o) /\ lastReply.o.status # 503)
        => /\ result[c].kind = "raise"
           /\ result[c].exc = StatusErrorClass(kind)
           /\ result[c].status = lastReply.o.status
           /\ result[c].body = lastReply.o.text

\* C8 as stated: a transport failure of the token request makes the call
\* fail with KRAeTIMSAuthError wrapping the cause, in both clients, also when
\* _authenticate is reached through _request.
C8_TokenTransportIsAuthError ==
    \A c \in Callers :
        (lastToken.by = c /\ lastToken.o.type = "transport")
        => /\ result[c].kind = "raise"
           /\ result[c].exc = "KRAeTIMSAuthError"
           /\ result[c].cause = lastToken.o.exc

\* C9: when the token endpoint answers with a status other than 200 (every
\* non-success status is one), the call ends there with KRAeTIMSAuthError
\* carrying the response body, and token and expiry are left as they were.
C9_Non200IsAuthError ==
    [][\A c \in Callers :
         (lastToken' # lastToken /\ lastToken'.by = c
            /\ lastToken'.o.type = "response" /\ lastToken'.o.status # 200)
         => /\ pc'[c] = "done"
            /\ result'[c].kind = "raise"
            /\ result'[c].exc = "KRAeTIMSAuthError"
            /\ result'[c].body = lastToken'.o.text
            /\ access_token' = access_token
            /\ token_expiry' = token_expiry]_vars

\* A dispatch whose refresh of an expired token was answered 401: the error
\* carries the body and the earlier token is still stored.
C9_Witness ==
    \E c \in Callers :
        /\ lastToken.by = c
        /\ lastToken.o.status = 401
        /\ lastToken.o.text = "bodyB"
        /\ call[c].op = "submit_sale"
        /\ result[c] = Raise("KRAeTIMSAuthError", 401, "bodyB", "")
        /\ access_token = "tokA"
        /\ token_expiry = 30

\* C10 as stated: the idempotency key a call passes is the value of the
\* X-TIaaS-Idempotency-Key header of that call's request, unchanged, and
\* requests of calls without a key and token requests carry no such header.
C10_KeyVerbatim ==
    \A i \in DOMAIN wire :
        IF wire[i].endpoint = "/oauth/token" \/ ~Truthy(wire[i].passed_key)
        THEN wire[i].idempotency_key = NoneStr
        ELSE wire[i].idempotency_key = wire[i].passed_key

\* ------------------------------------------- batch_update_stock, flush_offline_queue
Batch == "batch_update_stock"
Flush == "flush_offline_queue"

\* Stock item lists are told apart by their length only: item j of a list is
\* the number j, so a dropped, repeated or misplaced item shows.
StockItems(n) == [j \in 1 .. n |-> j]

\* List lengths around the multiples of the chunk size.
BatchSizes ==
    { n \in UNION { {k * ChunkSize - 1, k * ChunkSize, k * ChunkSize + 1} :
                     k \in 0 .. MaxChunks } : n >= 0 }

InvoiceNos == {"INV-1", "INV-2"}

\* Offline queues: lists of invoices, told apart by their invcNo.
InvoiceLists == UNION { [1 .. n -> InvoiceNos] : n \in 0 .. MaxInvoices }

\* How far one pass of the loop advances: range(0, len(items), 500) in
\* batch_update_stock, `for invoice in invoices` in flush_offline_queue.
Stride(op) == IF op = Batch THEN ChunkSize ELSE 1

\* items[i:i+w] (i counts from 0; a slice ends at the end of the list).
SliceFromStart(items, i, w) ==
    SubSeq(items, 1, IF w < Len(items) THEN w ELSE Len(items))

Slice(items, i, w) ==
    SubSeq(items, i + 1, IF i + w < Len(items) THEN i + w ELSE Len(items))

\* Where the operation sends what it takes from the list.
LoopPath(op) == IF op = Batch THEN "/v2/etims/stock/batch" ELSE "/v2/etims/sale"

\* The entry appended to `results` for the part at offset i, given what the
\* dispatch returned or raised: the try branch or the `except Exception`
\* branch.  count is -1 where the entry has none; message is str(e), told
\* apart here by the class of e.
RecordOfAlwaysSuccess(op, i, part, r) ==
    IF op = Batch
    THEN [chunk |-> i \div ChunkSize, status |-> "success", count |-> Len(part),
          message |-> ""]
    ELSE [invoice_no |-> part[1], status |-> "success", data |-> r.body,
          message |-> ""]

RecordOf(op, i, part, r) ==
    IF op = Batch
    THEN IF r.kind = "json"
         THEN [chunk |-> i \div ChunkSize, status |-> "success",
               count |-> Len(part), message |-> ""]
         ELSE [chunk |-> i \div ChunkSize, status |-> "error", count |-> -1,
               message |-> r.exc]
    ELSE IF r.kind = "json"
         THEN [invoice_no |-> part[1], status |-> "success", data |-> r.body,
               message |-> ""]
         ELSE [invoice_no |-> part[1], status |-> "error", data |-> "",
               message |-> r.exc]

\* Where the loop goes once the entry for a part is appended: both branches
\* of the try statement fall through to the next pass.
AfterRecordReraise(r) == IF r.kind = "raise" THEN "raised" ELSE "looping"

AfterRecord(r) == "looping"

\* What the operation hands back: the `results` list.
Return == [kind |-> "return", exc |-> "", status |-> 0, body |-> "", cause |-> ""]

\* The caller enters batch_update_stock or flush_offline_queue with a list.
LoopStart(c, op, items) ==
    /\ pc[c] = "idle"
    /\ loop.op = ""
    /\ loop' = [op |-> op, items |-> items, i |-> 0, results |-> <<>>, ends |-> <<>>]
    /\ pc' = [pc EXCEPT ![c] = "looping"]
    /\ UNCHANGED <<built, session, config, kind, access_token, token_expiry, lock, clock, call,
                   now, result, calls, wire, lastToken, lastReply, grants>>

\* One pass of the loop begins: the next part of the list is handed to
\* _request (batch) or submit_sale (flush, without an idempotency key).
LoopDispatch(c) ==
    /\ pc[c] = "looping"
    /\ loop.i < Len(loop.items)
    /\ calls' = [calls EXCEPT ![c] = @ + 1]
    /\ call' = [call EXCEPT ![c] =
                  [op |-> loop.op, method |-> "POST", path |-> LoopPath(loop.op),
                   param |-> NoneStr,
                   json |-> Slice(loop.items, loop.i, Stride(loop.op)),
                   idempotency_key |-> NoneStr, raw_key |-> NoneStr, doc |-> <<>>]]
    /\ pc' = [pc EXCEPT ![c] = "waiting"]
    /\ result' = [result EXCEPT ![c] = NoResult]
    /\ lastToken' = NoOutcome
    /\ lastReply' = NoOutcome
    /\ grants' = NoGrants(access_token, token_expiry)
    /\ UNCHANGED <<built, session, config, loop, kind, access_token, token_expiry, lock, clock,
                   now, wire>>

\* The dispatch of the pass returned or raised: the entry is appended.
\* `ends` keeps, for each pass, what was handed over, how it ended, and
\* whether its _authenticate returned without raising.
LoopRecord(c) ==
    /\ pc[c] = "done"
    /\ loop.op # ""
    /\ loop' = [loop EXCEPT
                  !.results = Append(@, RecordOf(loop.op, loop.i, call[c].json,
                                                 result[c])),
                  !.ends = Append(@, [json |-> call[c].json, result |-> result[c],
                                      authed |-> \/ lastToken.by # c
                                                 \/ AuthResult(kind, lastToken.o) = Ok]),
                  !.i = @ + Stride(loop.op)]
    /\ pc' = [pc EXCEPT ![c] = AfterRecord(result[c])]
    /\ UNCHANGED <<built, session, config, kind, access_token, token_expiry, lock, clock, call,
                   now, result, calls, wire, lastToken, lastReply, grants>>

\* The list is exhausted: `return results`.
LoopReturn(c) ==
    /\ pc[c] = "looping"
    /\ loop.i >= Len(loop.items)
    /\ pc' = [pc EXCEPT ![c] = "returned"]
    /\ result' = [result EXCEPT ![c] = Return]
    /\ UNCHANGED <<built, session, config, loop, kind, access_token, token_expiry, lock, clock,
                   call, now, calls, wire, lastToken, lastReply, grants>>

\* ---------------------------------- SpecLoop: one batch or flush operation
\* The token endpoint grants a token of the default or of a 30 second
\* lifetime, or refuses; the target answers 200 with JSON or 503, or the
\* connection fails.
LoopTokenOutcomes(k) ==
    { Response(200, TRUE, "bodyA", "tokA", 0), Response(200, TRUE, "bodyA", "tokA", 30),
      Response(401, FALSE, "bodyA", None, 0) }
    \cup { Failure(f) : f \in { g \in TransportFailures(k) :
                                   g.phase = "connect" /\ g.exc # "ConnectTimeout" } }

LoopReplyOutcomes(k) ==
    { Response(200, TRUE, "bodyA", None, 0), Response(503, FALSE, "bodyA", None, 0) }
    \cup { Failure(f) : f \in { g \in TransportFailures(k) :
                                   g.phase = "connect" /\ g.exc # "ConnectTimeout" } }

LoopCreds == {<<None, 0>>, <<"tok0", 3600>>}

InitLoop ==
    /\ kind \in Kinds
    /\ \E cr \in LoopCreds :
         /\ access_token = cr[1]
         /\ token_expiry = cr[2]
         /\ grants = NoGrants(cr[1], cr[2])
    /\ lock = 0
    /\ clock = 0
    /\ pc = [c \in Callers |-> IF c = MainThread THEN "idle" ELSE "off"]
    /\ call = [c \in Callers |-> NoCall]
    /\ now = [c \in Callers |-> 0]
    /\ result = [c \in Callers |-> NoResult]
    /\ calls = [c \in Callers |-> 0]
    /\ wire = <<>>
    /\ lastToken = NoOutcome
    /\ lastReply = NoOutcome
    /\ config = NoConfig
    /\ loop = NoLoop
    /\ session = OpenSession
    /\ built = NoDocs

NextLoop ==
    \/ \E c \in Callers : \E n \in BatchSizes : LoopStart(c, Batch, StockItems(n))
    \/ \E c \in Callers : \E q \in InvoiceLists : LoopStart(c, Flush, q)
    \/ \E c \in Callers : LoopDispatch(c)
    \/ \E c \in Callers : Acquire(c)
    \/ \E c \in Callers : Check(c)
    \/ \E c \in Callers : \E o \in LoopTokenOutcomes(kind) : TokenRespond(c, o)
    \/ \E c \in Callers : Send(c)
    \/ \E c \in Callers : \E o \in LoopReplyOutcomes(kind) : Reply(c, o)
    \/ \E c \in Callers : LoopRecord(c)
    \/ \E c \in Callers : LoopReturn(c)

SpecLoop == InitLoop /\ [][NextLoop]_vars

\* ------------------------------------------------ claims about SpecLoop
CeilDiv(n, w) == (n + w - 1) \div w

\* Part k (from 0) of a list cut into parts of w: the items at positions
\* k*w .. min(k*w + w - 1, n - 1), in input order.
ExpectedPart(items, k, w) ==
    [j \in 1 .. (IF Len(items) - k * w < w THEN Len(items) - k * w ELSE w)
       |-> items[k * w + j]]

IsBatchPost(w) == w.endpoint = "/v2/etims/stock/batch"
IsSalePost(w) == w.endpoint = "/v2/etims/sale"
BatchPosts == SelectSeq(wire, IsBatchPost)
SalePosts == SelectSeq(wire, IsSalePost)

Returned(op) == loop.op = op /\ pc[MainThread] = "returned"

\* The operation is over, however it ended.
LoopOver ==
    /\ loop.op # ""
    /\ pc[MainThread] \notin {"looping", "waiting", "locked", "posting", "authed",
                              "sent", "done"}

\* The records batch_update_stock returned are one per chunk, record k with
\* chunk index k and, when successful, the size of chunk k as its count.
BatchRecordsPerChunk ==
    /\ Len(loop.results) = CeilDiv(Len(loop.items), ChunkSize)
    /\ \A k \in 1 .. Len(loop.results) :
         /\ loop.results[k].chunk = k - 1
         /\ loop.results[k].status = "success" =>
              loop.results[k].count = Len(ExpectedPart(loop.items, k - 1, ChunkSize))

\* C11 as stated: for every list of n items, batch_update_stock issues
\* exactly ceil(n/500) POST requests to /v2/etims/stock/batch, request k
\* carrying exactly the items 500k .. min(500k+499, n-1) in input order, and
\* returns ceil(n/500) records, record k with chunk index k and, when
\* successful, the size of chunk k; for n = 0 no request and no record.
C11_ExactlyCeilPosts ==
    Returned(Batch) =>
      /\ Len(BatchPosts) = CeilDiv(Len(loop.items), ChunkSize)
      /\ \A k \in 1 .. Len(BatchPosts) :
           /\ BatchPosts[k].method = "POST"
           /\ BatchPosts[k].json = ExpectedPart(loop.items, k - 1, ChunkSize)
      /\ BatchRecordsPerChunk

\* C11 amended: batch_update_stock makes exactly ceil(n/500) dispatches in
\* order, dispatch k for exactly the items 500k .. min(500k+499, n-1) in input
\* order; a dispatch whose authentication succeeds sends exactly one POST to
\* /v2/etims/stock/batch carrying those items, a dispatch whose authentication
\* fails sends none; the requests go out in chunk order; the records are as
\* stated.
C11_OnePostPerAuthenticatedChunk ==
    Returned(Batch) =>
      /\ Len(loop.ends) = CeilDiv(Len(loop.items), ChunkSize)
      /\ \A k \in 1 .. Len(loop.ends) :
           /\ loop.ends[k].json = ExpectedPart(loop.items, k - 1, ChunkSize)
           /\ Cardinality({j \in 1 .. Len(BatchPosts) : BatchPosts[j].n = k})
                = IF loop.ends[k].authed THEN 1 ELSE 0
      /\ \A j \in 1 .. Len(BatchPosts) :
           /\ BatchPosts[j].method = "POST"
           /\ BatchPosts[j].n \in 1 .. Len(loop.ends)
           /\ BatchPosts[j].json = ExpectedPart(loop.items, BatchPosts[j].n - 1, ChunkSize)
           /\ j > 1 => BatchPosts[j - 1].n < BatchPosts[j].n
      /\ BatchRecordsPerChunk

\* A list of 501 items went out as two requests, both answered, and a list
\* was cut short of a request by a refused token.
C11_Witness ==
    /\ Returned(Batch)
    /\ Len(loop.items) = ChunkSize + 1
    /\ Len(BatchPosts) = 2
    /\ Len(BatchPosts[2].json) = 1
    /\ \A k \in 1 .. 2 : loop.results[k].status = "success"

\* C12: in batch_update_stock a chunk that fails, for any error including
\* an authentication error, is recorded as an error entry for that chunk with
\* the error's message; the operation never raises and every later chunk is
\* still dispatched; there is one record per chunk and record k reflects the
\* outcome of chunk k only.
C12_ChunkFailureIsolated ==
    loop.op = Batch =>
      /\ Len(loop.results) = Len(loop.ends)
      /\ \A k \in 1 .. Len(loop.results) :
           /\ loop.results[k].chunk = k - 1
           /\ loop.results[k].status = "success" <=> loop.ends[k].result.kind = "json"
           /\ loop.results[k].status = "error" <=> loop.ends[k].result.kind = "raise"
           /\ loop.results[k].status = "error" =>
                loop.results[k].message = loop.ends[k].result.exc
      /\ LoopOver =>
           /\ result[MainThread] = Return
           /\ Len(loop.results) = CeilDiv(Len(loop.items), ChunkSize)
           /\ calls[MainThread] = CeilDiv(Len(loop.items), ChunkSize)

\* A chunk failed on authentication, the next one went through, and the
\* operation returned.
C12_Witness ==
    /\ Returned(Batch)
    /\ \E k \in 1 .. Len(loop.results) - 1 :
         /\ loop.results[k].status = "error"
         /\ loop.results[k].message = "KRAeTIMSAuthError"
         /\ loop.results[k + 1].status = "success"

\* C13: flush_offline_queue attempts exactly n sale submissions for n
\* invoices, one per invoice, one after another in input order, and returns n
\* records, record i with the invoice number of invoice i and the status of
\* submission i; a failed submission is recorded and the later ones are still
\* attempted.
C13_FlushOnePerInvoiceInOrder ==
    loop.op = Flush =>
      /\ Len(loop.results) = Len(loop.ends)
      /\ Len(loop.ends) <= Len(loop.items)
      /\ \A i \in 1 .. Len(loop.ends) :
           /\ loop.ends[i].json = <<loop.items[i]>>
           /\ loop.results[i].invoice_no = loop.items[i]
           /\ loop.results[i].status = "success" <=> loop.ends[i].result.kind = "json"
           /\ loop.results[i].status = "error" <=> loop.ends[i].result.kind = "raise"
      /\ pc[MainThread] \in {"waiting", "locked", "posting", "authed", "sent", "done"} =>
           /\ calls[MainThread] = Len(loop.ends) + 1
           /\ call[MainThread].json = <<loop.items[calls[MainThread]]>>
      /\ \A j \in 1 .. Len(SalePosts) :
           /\ SalePosts[j].n \in 1 .. Len(loop.items)
           /\ SalePosts[j].json = <<loop.items[SalePosts[j].n]>>
           /\ j > 1 => SalePosts[j - 1].n < SalePosts[j].n
      /\ LoopOver =>
           /\ result[MainThread] = Return
           /\ Len(loop.results) = Len(loop.items)
           /\ calls[MainThread] = Len(loop.items)

\* The first of two submissions failed, the second went through.
C13_Witness ==
    /\ Returned(Flush)
    /\ Len(loop.items) = 2
    /\ loop.results[1].status = "error"
    /\ loop.results[2].status = "success"
    /\ Len(SalePosts) = 2

\* ------------------------------------------------ construction and URLs
\* Strings of up to n symbols over an alphabet.
Strs(alphabet, n) == UNION { [1 .. k -> alphabet] : k \in 0 .. n }

\* Base URLs a caller may pass: a scheme, a host, spaces and slashes in any
\* order, or nothing.
ArgUrls == Strs({"https://", "h", " ", "/"}, MaxLen) \cup {NoneStr}

\* Values TAXID_API_URL may have: unset, blank, or a URL with whitespace and
\* a trailing slash around it.
EnvUrls == { NoneStr, <<" ">>, <<" ", "https://", "e", "/", " ">> }

\* Taxpayer PINs a caller may pass to check_compliance: empty, clean, with
\* whitespace around it, and URL-shaped with whitespace after it.
Pins == { <<>>, <<"P">>, <<" ", "P", " ">>, <<"https://", "P", " ">> }

\* KRAeTIMSClient(client_id, client_secret, base_url=arg, api_key=argkey)
\* with TAXID_API_URL=env and TAXID_API_KEY=envkey in the environment.
\* __init__ has no api_key parameter: passing one raises TypeError and no
\* client exists; it never reads TAXID_API_KEY.
Construct(c, env, arg, envkey, argkey) ==
    /\ pc[c] = "new"
    /\ config' = [TAXID_API_URL |-> env, base_url_arg |-> arg,
                  TAXID_API_KEY |-> envkey, api_key |-> argkey,
                  base_url |-> IF IsStr(argkey) THEN NoneStr
                               ELSE ResolveBaseUrl(env, arg)]
    /\ pc' = [pc EXCEPT ![c] = IF IsStr(argkey) THEN "unbuilt" ELSE "idle"]
    /\ result' = [result EXCEPT ![c] = IF IsStr(argkey)
                                       THEN Raise("TypeError", 0, "", "")
                                       ELSE @]
    /\ access_token' = None
    /\ token_expiry' = 0
    /\ lock' = 0
    /\ session' = IF IsStr(argkey) THEN session ELSE OpenSession
    /\ UNCHANGED <<built, loop, kind, clock, call, now, calls, wire, lastToken,
                   lastReply, grants>>

\* check_compliance(pin): sanitize_kra_url rewrites pin, the path is
\* f"/v2/etims/compliance/{pin}", and sanitize_kra_url runs again on the
\* arguments of _request, the path among them.
CompliancePath(pin) == SanitizeArg(PathText("/v2/etims/compliance/", SanitizeArg(pin)))

CallCompliance(c, pin) ==
    /\ pc[c] = "idle"
    /\ calls[c] < MaxCalls
    /\ calls' = [calls EXCEPT ![c] = @ + 1]
    /\ call' = [call EXCEPT ![c] =
                  [op |-> "check_compliance", method |-> "GET",
                   path |-> CompliancePath(pin)[2],
                   param |-> SubSeq(CompliancePath(pin), 3, Len(CompliancePath(pin))),
                   json |-> <<>>, idempotency_key |-> NoneStr, raw_key |-> pin,
                   doc |-> <<>>]]
    /\ pc' = [pc EXCEPT ![c] = "waiting"]
    /\ result' = [result EXCEPT ![c] = NoResult]
    /\ lastToken' = NoOutcome
    /\ lastReply' = NoOutcome
    /\ grants' = NoGrants(access_token, token_expiry)
    /\ UNCHANGED <<built, session, config, loop, kind, access_token, token_expiry, lock, clock,
                   now, wire>>

\* Before construction.
InitNew ==
    /\ kind \in Kinds
    /\ access_token = None
    /\ token_expiry = 0
    /\ grants = NoGrants(None, 0)
    /\ lock = 0
    /\ clock = 0
    /\ pc = [c \in Callers |-> IF c = MainThread THEN "new" ELSE "off"]
    /\ call = [c \in Callers |-> NoCall]
    /\ now = [c \in Callers |-> 0]
    /\ result = [c \in Callers |-> NoResult]
    /\ calls = [c \in Callers |-> 0]
    /\ wire = <<>>
    /\ lastToken = NoOutcome
    /\ lastReply = NoOutcome
    /\ config = [NoConfig EXCEPT !.base_url = NoneStr]
    /\ loop = NoLoop
    /\ session = NoSession
    /\ built = NoDocs

\* SpecUrl: a client is constructed from a base URL and the environment and
\* one check_compliance call is made; the servers answer 200.
UrlTokenOutcomes == { Response(200, TRUE, "bodyA", "tokA", 0) }
UrlReplyOutcomes == { Response(200, TRUE, "bodyA", None, 0) }

NextUrl ==
    \/ \E c \in Callers : \E env \in EnvUrls : \E arg \in ArgUrls :
         Construct(c, env, arg, NoneStr, NoneStr)
    \/ \E c \in Callers : \E pin \in Pins : CallCompliance(c, pin)
    \/ \E c \in Callers : Acquire(c)
    \/ \E c \in Callers : Check(c)
    \/ \E c \in Callers : \E o \in UrlTokenOutcomes : TokenRespond(c, o)
    \/ \E c \in Callers : Send(c)
    \/ \E c \in Callers : \E o \in UrlReplyOutcomes : Reply(c, o)

SpecUrl == InitNew /\ [][NextUrl]_vars

\* ------------------------------------------------- claims about SpecUrl
HasSpace(s) == \E i \in 1 .. Len(s) : IsSpace(s[i])

\* The whitespace of a string is all at its ends.
OnlyOuterSpace(s) == ~HasSpace(Strip(s))

\* C14: a string argument with leading or trailing whitespace, the base URL
\* given at construction or the pin given to check_compliance, is stripped
\* before the request is formed: the URL of an outgoing request contains no
\* whitespace (here: whenever the base URL used and the pin have whitespace
\* at their ends only).
C14_NoIncidentalWhitespace ==
    \A i \in 1 .. Len(wire) :
      ( /\ OnlyOuterSpace(RawUrl(config.TAXID_API_URL, config.base_url_arg))
        /\ OnlyOuterSpace(call[wire[i].by].raw_key) )
      => ~HasSpace(wire[i].url)

\* ------------------------------------------------ SpecKey: API key set up
\* An API key in TAXID_API_KEY, one passed as api_key, both, or neither.
EnvKeys == { NoneStr, <<"env-key">> }
ArgKeys == { NoneStr, <<"arg-key">> }

KeyMethods == {"GET", "POST"}
KeyTokenOutcomes == { Response(200, TRUE, "bodyA", "tokA", 0),
                      Response(401, FALSE, "bodyA", None, 0) }
KeyReplyOutcomes == { Response(200, TRUE, "bodyA", None, 0),
                      Response(503, FALSE, "bodyA", None, 0) }

NextKey ==
    \/ \E c \in Callers : \E envkey \in EnvKeys : \E argkey \in ArgKeys :
         Construct(c, NoneStr, NoneStr, envkey, argkey)
    \/ \E c \in Callers : \E m \in KeyMethods : Call(c, "_request", m, NoneStr)
    \/ \E c \in Callers : Acquire(c)
    \/ \E c \in Callers : Check(c)
    \/ \E c \in Callers : \E o \in KeyTokenOutcomes : TokenRespond(c, o)
    \/ \E c \in Callers : Send(c)
    \/ \E c \in Callers : \E o \in KeyReplyOutcomes : Reply(c, o)

SpecKey == InitNew /\ [][NextKey]_vars

\* ------------------------------------------------- claims about SpecKey
KeyConfigured == IsStr(config.TAXID_API_KEY) \/ IsStr(config.api_key)

\* The key the settings call for: the environment's when it is set, else
\* the constructor's.
ConfiguredKey ==
    IF IsStr(config.TAXID_API_KEY) THEN config.TAXID_API_KEY ELSE config.api_key

IsTokenRequest(w) == w.endpoint = "/oauth/token"

\* C15: when an API key is configured, through the constructor or through
\* TAXID_API_KEY, no request ever goes to /oauth/token and every request
\* carries an X-API-Key header and no Authorization header.
C15_KeyModeNeverUsesOAuth ==
    KeyConfigured =>
      \A i \in 1 .. Len(wire) :
        /\ ~IsTokenRequest(wire[i])
        /\ IsStr(wire[i].x_api_key)
        /\ wire[i].authorization \notin {"Basic", "Bearer"}

\* C16: with both TAXID_API_KEY and the api_key argument set, the key sent
\* is the environment's; with only one of them set, that one is sent.
C16_EnvKeyWins ==
    KeyConfigured =>
      \A i \in 1 .. Len(wire) :
        ~IsTokenRequest(wire[i]) => wire[i].x_api_key = ConfiguredKey

\* C17: every request to an endpoint other than the token endpoint carries
\* exactly one authentication header, a Bearer authorization or an X-API-Key,
\* never both and never neither, and the one used is the same for every
\* request of the client.
C17_ExactlyOneAuthHeader ==
    \A i \in 1 .. Len(wire) :
      ~IsTokenRequest(wire[i]) =>
        /\ (wire[i].authorization = "Bearer") # IsStr(wire[i].x_api_key)
        /\ \A j \in 1 .. Len(wire) :
             ~IsTokenRequest(wire[j]) =>
               /\ wire[j].authorization = wire[i].authorization
               /\ IsStr(wire[j].x_api_key) = IsStr(wire[i].x_api_key)

\* A client built with TAXID_API_KEY in the environment sent two requests.
C17_Witness ==
    /\ IsStr(config.TAXID_API_KEY)
    /\ Cardinality({i \in 1 .. Len(wire) : ~IsTokenRequest(wire[i])}) = 2

\* ------------------------------------------- further claims about Spec
\* The requests call number n of caller c handed to the HTTP library.
RequestsOf(c, n) == {i \in 1 .. Len(wire) : wire[i].by = c /\ wire[i].n = n}

\* C18: one invocation of _request sends at most one request to its target
\* path and at most one token request, whatever the outcome (nothing is sent
\* again after a failure), and every request on the wire was sent as a step
\* of some caller's operation.
C18_AtMostOneRequestPerDispatch ==
    /\ \A i \in 1 .. Len(wire) :
         wire[i].by \in Callers /\ wire[i].n \in 1 .. calls[wire[i].by]
    /\ \A c \in Callers : \A n \in 1 .. calls[c] :
         /\ Cardinality({i \in RequestsOf(c, n) : IsTokenRequest(wire[i])}) <= 1
         /\ Cardinality({i \in RequestsOf(c, n) : ~IsTokenRequest(wire[i])}) <= 1

\* A dispatch refreshed the token, sent its request, failed, and is over.
C18_Witness ==
    \E c \in Callers :
      /\ pc[c] = "done"
      /\ result[c].kind = "raise"
      /\ lastReply.by = c
      /\ Cardinality(RequestsOf(c, calls[c])) = 2

\* ----------------------------------------- further claims about SpecAuth
\* C19: every HTTP call, the token exchange included, runs under the 30
\* second timeout, so a caller, and every caller waiting behind it for the
\* lock, returns even if the server never answers.  Checked as: no request is
\* ever handed to the HTTP library without the 30 second timeout.
C19_EveryCallHasTimeout ==
    \A i \in 1 .. Len(wire) : wire[i].timeout = RequestTimeout

\* --------------------------------- sync and async clients side by side
\* The same network event as library k reports it: a response is the same
\* in both; a failure to connect is requests' ConnectionError and httpx's
\* ConnectError; a connection lost mid-flight is requests' ConnectionError
\* and httpx's ReadError; the timeouts have the same names.
SameEvent(k, o) ==
    IF o.type # "transport" THEN o
    ELSE IF o.exc \in {"ConnectTimeout", "ReadTimeout"} THEN o
    ELSE IF o.phase = "connect"
         THEN Failure([exc |-> IF k = "sync" THEN "ConnectionError" ELSE "ConnectError",
                       phase |-> "connect"])
         ELSE Failure([exc |-> IF k = "sync" THEN "ConnectionError" ELSE "ReadError",
                       phase |-> "midflight"])

\* The kind of a result: returned, or the class raised (the two libraries'
\* status errors count as one class).
ResultClass(r) ==
    [kind |-> r.kind,
     exc |-> IF r.exc \in {"HTTPError", "HTTPStatusError"} THEN "StatusError" ELSE r.exc]

\* C20: the sync and the async client are equivalent: for every credential
\* state, method and outcome of the token exchange or of the request, a
\* dispatch gives the same kind of result in both (returned JSON or the same
\* error class) and leaves the credential state in the same condition.
C20_SyncAsyncEquivalent ==
    /\ lastToken.by # 0 =>
         /\ ResultClass(AuthResult("sync", SameEvent("sync", lastToken.o)))
              = ResultClass(AuthResult("async", SameEvent("async", lastToken.o)))
         /\ AuthStore("sync", SameEvent("sync", lastToken.o), None, 0, lastToken.now)
              = AuthStore("async", SameEvent("async", lastToken.o), None, 0, lastToken.now)
    /\ lastReply.by # 0 =>
         ResultClass(DispatchResult("sync", call[lastReply.by].method,
                                    SameEvent("sync", lastReply.o)))
           = ResultClass(DispatchResult("async", call[lastReply.by].method,
                                       SameEvent("async", lastReply.o)))

\* ------------------------------------------ further claims about SpecUrl
Constructed == pc[MainThread] # "new" /\ IsStr(config.base_url)

\* The setting the base URL is to come from: TAXID_API_URL when it is set
\* and not blank, else the constructor argument when it is given and not
\* empty, else the default.
ChosenUrl ==
    IF IsStr(config.TAXID_API_URL) /\ ~(\A i \in 1 .. Len(config.TAXID_API_URL) :
                                          IsSpace(config.TAXID_API_URL[i]))
    THEN config.TAXID_API_URL
    ELSE IF IsStr(config.base_url_arg) /\ Len(config.base_url_arg) > 0
    THEN config.base_url_arg
    ELSE DefaultUrl

\* C21: the base URL of a client comes from TAXID_API_URL whenever that is
\* set to a non-blank string, otherwise from the constructor argument when
\* it is non-empty, otherwise it is the default
\* https://taxid-production.up.railway.app.
C21_BaseUrlPriority ==
    Constructed => config.base_url = RStripSlash(Strip(ChosenUrl))

\* Environment and argument both named a URL and the environment's was taken;
\* the stored URL differs from what the argument would have given.
C21_Witness ==
    /\ Constructed
    /\ config.TAXID_API_URL = <<" ", "https://", "e", "/", " ">>
    /\ config.base_url_arg = <<"https://", "h">>
    /\ config.base_url = <<"https://", "e">>

\* C22: for every base URL given to the constructor or the environment the
\* stored base_url has no leading whitespace, no trailing whitespace and no
\* trailing slash, for any mix and order of spaces and slashes around it.
C22_BaseUrlClean ==
    Constructed =>
      \/ config.base_url = <<>>
      \/ /\ ~IsSpace(Head(config.base_url))
         /\ ~IsSpace(config.base_url[Len(config.base_url)])
         /\ config.base_url[Len(config.base_url)] # "/"

\* ------------------------------------------- further claims about Spec
\* C23: every request the client sends, token requests included, carries
\* the header X-TIaaS-Service: Handshake, over any sequence of operations.
C23_ServiceHeaderOnEveryRequest ==
    \A i \in 1 .. Len(wire) : wire[i].x_tiaas_service = "Handshake"

\* A token request and a dispatched request have both gone out.
C23_Witness ==
    /\ \E i \in 1 .. Len(wire) : IsTokenRequest(wire[i])
    /\ \E i \in 1 .. Len(wire) : ~IsTokenRequest(wire[i])

\* ------------------------------------------------ SpecDump: typed operations
\* The typed operations that take a document, with the path each posts to.
TypedOps == {"initialize_device", "submit_sale", "submit_reverse_invoice", "update_stock"}

TypedPath(op) ==
    CASE op = "initialize_device" -> "/v2/etims/init"
      [] op = "submit_sale" -> "/v2/etims/sale"
      [] op = "submit_reverse_invoice" -> "/v2/etims/reverse"
      [] op = "update_stock" -> "/v2/etims/stock"

\* The fields of each operation's document that matter here: one required
\* field and the Optional[str] ones (models.py: InvoiceBase.orgInvcNo and
\* custPin, ReverseInvoice.orgInvcNo required, StockItem.tin2 and bhfId2,
\* DeviceInit without optional fields).
RequiredFields(op) ==
    CASE op = "initialize_device" -> {"tin"}
      [] op = "submit_sale" -> {"invcNo"}
      [] op = "submit_reverse_invoice" -> {"invcNo", "orgInvcNo"}
      [] op = "update_stock" -> {"itemCd"}

OptionalFields(op) ==
    CASE op = "initialize_device" -> {}
      [] op = "submit_sale" -> {"orgInvcNo", "custPin"}
      [] op = "submit_reverse_invoice" -> {"custPin"}
      [] op = "update_stock" -> {"tin2", "bhfId2"}

\* Field values: the empty string and a non-empty one; None for an optional
\* field left out or passed as None.
FieldValues == {"", "x"}

Documents(op) ==
    { d \in [RequiredFields(op) \cup OptionalFields(op) -> FieldValues \cup {None}] :
        \A f \in RequiredFields(op) : d[f] # None }

\* model_dump(mode='json', exclude_none=True): the fields whose value is
\* not None, with their values.
ModelDumpKeepNone(doc) == doc

ModelDump(doc) == [f \in {g \in DOMAIN doc : doc[g] # None} |-> doc[f]]

\* A typed operation is called with a document and hands its dump to
\* _request.
CallTyped(c, op, d) ==
    /\ pc[c] = "idle"
    /\ calls[c] < MaxCalls
    /\ calls' = [calls EXCEPT ![c] = @ + 1]
    /\ call' = [call EXCEPT ![c] =
                  [op |-> op, method |-> "POST", path |-> TypedPath(op),
                   param |-> NoneStr, json |-> <<ModelDump(d)>>,
                   idempotency_key |-> NoneStr, raw_key |-> NoneStr, doc |-> d]]
    /\ pc' = [pc EXCEPT ![c] = "waiting"]
    /\ result' = [result EXCEPT ![c] = NoResult]
    /\ lastToken' = NoOutcome
    /\ lastReply' = NoOutcome
    /\ grants' = NoGrants(access_token, token_expiry)
    /\ UNCHANGED <<built, session, config, loop, kind, access_token, token_expiry, lock, clock,
                   now, wire>>

NextDump ==
    \/ \E c \in Callers : \E op \in TypedOps : \E d \in Documents(op) : CallTyped(c, op, d)
    \/ \E c \in Callers : Acquire(c)
    \/ \E c \in Callers : Check(c)
    \/ \E c \in Callers : \E o \in KeyTokenOutcomes : TokenRespond(c, o)
    \/ \E c \in Callers : Send(c)
    \/ \E c \in Callers : \E o \in KeyReplyOutcomes : Reply(c, o)

SpecDump == Init /\ [][NextDump]_vars

EnterScope(c) ==
    /\ pc[c] = "idle"
    /\ calls[c] = 0
    /\ ~session.scoped
    /\ IF kind = "async"
       THEN /\ session' = [session EXCEPT !.scoped = TRUE]
            /\ UNCHANGED <<pc, call, result>>
       ELSE /\ call' = [call EXCEPT ![c] = [NoCall EXCEPT !.op = "__enter__"]]
            /\ result' = [result EXCEPT ![c] = Raise("TypeError", 0, "", "")]
            /\ pc' = [pc EXCEPT ![c] = "done"]
            /\ UNCHANGED session
    /\ UNCHANGED <<built, config, loop, kind, access_token, token_expiry, lock, clock,
                   now, calls, wire, lastToken, lastReply, grants>>

\* The `async with` block is left, normally or by the exception of the last
\* operation: __aexit__ awaits self._client.aclose() and lets the exception
\* through.
ExitScope(c) ==
    /\ pc[c] \in {"idle", "done"}
    /\ session.scoped
    /\ session' = [pool |-> "closed", scoped |-> FALSE]
    /\ call' = [call EXCEPT ![c] = [NoCall EXCEPT !.op = "__aexit__"]]
    /\ pc' = [pc EXCEPT ![c] = "shut"]
    /\ UNCHANGED <<built, config, loop, kind, access_token, token_expiry, lock, clock,
                   now, result, calls, wire, lastToken, lastReply, grants>>

\* The caller shuts the client down explicitly: aclose() on the async
\* client closes the httpx client; KRAeTIMSClient has no close method, the
\* call raises AttributeError and the session stays as it is.
Close(c) ==
    /\ pc[c] \in {"idle", "done"}
    /\ ~session.scoped
    /\ pc' = [pc EXCEPT ![c] = "shut"]
    /\ IF kind = "async"
       THEN /\ session' = [session EXCEPT !.pool = "closed"]
            /\ call' = [call EXCEPT ![c] = [NoCall EXCEPT !.op = "aclose"]]
            /\ result' = [result EXCEPT ![c] = Ok]
       ELSE /\ call' = [call EXCEPT ![c] = [NoCall EXCEPT !.op = "close"]]
            /\ result' = [result EXCEPT ![c] = Raise("AttributeError", 0, "", "")]
            /\ UNCHANGED session
    /\ UNCHANGED <<built, config, loop, kind, access_token, token_expiry, lock, clock,
                   now, calls, wire, lastToken, lastReply, grants>>

\* The task is cancelled while it awaits self._client.request: the await
\* raises asyncio.CancelledError (a BaseException, no httpx class).  Threads
\* of the sync client cannot be cancelled.
Cancelled == Failure([exc |-> "CancelledError", phase |-> "midflight"])

LifeReplyOutcomes(k) ==
    KeyReplyOutcomes \cup (IF k = "async" THEN {Cancelled} ELSE {})

NextLife ==
    \/ \E c \in Callers : Construct(c, NoneStr, NoneStr, NoneStr, NoneStr)
    \/ \E c \in Callers : EnterScope(c)
    \/ \E c \in Callers : \E m \in KeyMethods : Call(c, "_request", m, NoneStr)
    \/ \E c \in Callers : Acquire(c)
    \/ \E c \in Callers : Check(c)
    \/ \E c \in Callers : \E o \in KeyTokenOutcomes : TokenRespond(c, o)
    \/ \E c \in Callers : Send(c)
    \/ \E c \in Callers : \E o \in LifeReplyOutcomes(kind) : Reply(c, o)
    \/ \E c \in Callers : ExitScope(c)
    \/ \E c \in Callers : Close(c)

SpecLife == InitNew /\ [][NextLife]_vars

\* C25: shutting a client down releases its pooled connections: for the
\* sync and the async client alike, after the explicit close or after the
\* end of the scope, also when the scope is left by an exception, the pool
\* acquired at construction is released.
C25_ShutdownReleasesPool ==
    \A c \in Callers : pc[c] = "shut" => session.pool = "closed"

\* C26: cancelling a task inside an async dispatch surfaces to the caller
\* as the classified transport error: TIaaSAmbiguousStateError for a
\* mutating method, TIaaSUnavailableError for a non-mutating one.
C26_CancellationIsClassified ==
    \A c \in Callers :
      (pc[c] = "done" /\ lastReply.by = c /\ lastReply.o = Cancelled) =>
        result[c] = ByMethod(call[c].method)

\* ------------------------------------------------ SpecDoc: document checks
\* Decimal values are whole numbers of thousandths here (12.345 is 12345),
\* a product of two of them a whole number of millionths; none is negative.
\* Decimal.quantize(Decimal('0.01'), rounding=ROUND_HALF_UP) of x/d, in
\* hundredths.
HalfUp(x, d) == (2 * x + d) \div (2 * d)

\* Decimal.quantize(Decimal('0.01')) under the default context, which
\* rounds half to even, of x/d, in hundredths.
HalfEven(x, d) ==
    LET q == x \div d
        r == x % d
    IN IF 2 * r < d THEN q
       ELSE IF 2 * r > d THEN q + 1
       ELSE IF q % 2 = 0 THEN q ELSE q + 1

\* Quantities 1 and 3, unit prices 0.005 and 0.015, amounts in steps of
\* 0.005, tax amounts 0 and 0.005.
Quantities == {1000, 3000}
UnitPrices == {5, 15}
Amounts == { 5 * k : k \in 0 .. MaxFives }
TaxAmounts == {0, 5}

\* expected_tot = (self.qty * self.uprc).quantize(Decimal('0.01'),
\* rounding=ROUND_HALF_UP), in hundredths.
ExpectedTotHalfEven(qty, uprc) == HalfEven(qty * uprc, 10000)

ExpectedTot(qty, uprc) == HalfUp(qty * uprc, 10000)

\* ItemDetail.validate_math: TRUE when it returns self, FALSE when it
\* raises ValueError.
ValidateMath(it) ==
    /\ it.totAmt = 10 * ExpectedTot(it.qty, it.uprc)
    /\ HalfEven(it.taxblAmt + it.taxAmt, 10) = HalfEven(it.totAmt, 10)

RECURSIVE SumTotAmt(_)
SumTotAmt(items) ==
    IF items = <<>> THEN 0 ELSE Head(items).totAmt + SumTotAmt(Tail(items))

\* InvoiceBase.validate_invoice_totals, inherited by SaleInvoice and
\* ReverseInvoice.
ValidateInvoiceTotals(inv) ==
    HalfEven(inv.totAmt, 10) = HalfEven(SumTotAmt(inv.itemList), 10)

InvoiceClasses == {"SaleInvoice", "ReverseInvoice"}

\* ItemDetail(qty=..., uprc=..., totAmt=..., taxblAmt=..., taxAmt=...): the
\* item exists only if the validator did not raise.
NewItem(qty, uprc, tot, taxbl, tax) ==
    LET it == [qty |-> qty, uprc |-> uprc, totAmt |-> tot, taxblAmt |-> taxbl,
               taxAmt |-> tax]
    IN /\ built.invoice = NoInvoice
       /\ Len(built.items) < MaxItems
       /\ ValidateMath(it)
       /\ built' = [built EXCEPT !.items = Append(@, it)]
       /\ UNCHANGED <<session, config, loop, kind, access_token, token_expiry,
                      lock, clock, pc, call, now, result, calls, wire, lastToken,
                      lastReply, grants>>

\* SaleInvoice(..., totAmt=tot, itemList=items) or ReverseInvoice(...).
NewInvoice(cls, tot) ==
    LET inv == [cls |-> cls, totAmt |-> tot, itemList |-> built.items]
    IN /\ built.invoice = NoInvoice
       /\ ValidateInvoiceTotals(inv)
       /\ built' = [built EXCEPT !.invoice = inv]
       /\ UNCHANGED <<session, config, loop, kind, access_token, token_expiry,
                      lock, clock, pc, call, now, result, calls, wire, lastToken,
                      lastReply, grants>>

NextDoc ==
    \/ \E qty \in Quantities : \E uprc \in UnitPrices : \E tot \in Amounts :
         \E taxbl \in Amounts : \E tax \in TaxAmounts :
           NewItem(qty, uprc, tot, taxbl, tax)
    \/ \E cls \in InvoiceClasses : \E tot \in Amounts : NewInvoice(cls, tot)

SpecDoc == Init /\ [][NextDoc]_vars

\* x thousandths is y hundredths "at two decimals": y is the nearest
\* hundredth, a tie going to the even one (what quantize does by default).
AtTwoDecimals(x, y) ==
    \/ 10 * y - 5 < x /\ x < 10 * y + 5
    \/ (x = 10 * y - 5 \/ x = 10 * y + 5) /\ y % 2 = 0

\* An item's totAmt is qty x uprc rounded half-up to two decimals, exactly,
\* and its taxblAmt + taxAmt is its totAmt at two decimals.
ItemConsistent(it) ==
    /\ it.totAmt % 10 = 0
    /\ 1000 * it.totAmt - 5000 <= it.qty * it.uprc
    /\ it.qty * it.uprc < 1000 * it.totAmt + 5000
    /\ AtTwoDecimals(it.taxblAmt + it.taxAmt, it.totAmt \div 10)

KRAeTIMSErrorClasses ==
    {"KRAeTIMSError", "KRAConnectivityTimeoutError", "KRAeTIMSAuthError",
     "KRAeTIMSValidationError", "TIaaSUnavailableError",
     "TIaaSAmbiguousStateError"}

\* C28 as stated: every failure of a dispatch, a failure of the token
\* exchange it triggers included, reaches the caller as an error deriving
\* from KRAeTIMSError; no exception of the transport library does.
C28_DispatchFailuresInTaxonomy ==
    \A c \in Callers :
        (call[c].op # "_authenticate" /\ result[c].kind = "raise")
        => result[c].exc \in KRAeTIMSErrorClasses

\* ------------------------------------------- the refresh decision and store
\* C29: the step in which a caller holding the lock makes its check sends a
\* token request if and only if the token is absent or expiry minus the
\* time read is strictly less than 60 seconds; with a token that has 60
\* seconds or more left the caller returns from _authenticate in that step,
\* nothing is sent and token and expiry stay as they were.
C29_RefreshIffInsideMargin ==
    [][\A c \in Callers :
         (pc[c] = "locked" /\ pc'[c] # "locked")
         => LET inside == access_token = None \/ token_expiry - clock < 60 IN
            /\ inside <=> (/\ Len(wire') = Len(wire) + 1
                           /\ IsTokenRequest(wire'[Len(wire')])
                           /\ wire'[Len(wire')].by = c)
            /\ ~inside => /\ wire' = wire
                          /\ pc'[c] \in {"done", "authed"}
                          /\ lock' = 0
                          /\ access_token' = access_token
                          /\ token_expiry' = token_expiry]_vars

\* A caller found the token with exactly 60 seconds left and returned; no
\* request has been sent by anyone.
C29_Witness ==
    \E c \in Callers :
        /\ pc[c] = "done"
        /\ result[c] = Ok
        /\ access_token = "tok0"
        /\ token_expiry - now[c] = 60
        /\ wire = <<>>

\* C30: when a token request is answered 200 with a JSON object, the token
\* stored is the one of the response and the expiry stored is the time the
\* refreshing caller read under the lock plus the lifetime the response
\* declares, or plus 3600 seconds when it declares none.
C30_StoredTokenAndExpiry ==
    [][\A c \in Callers :
         (lastToken' # lastToken /\ lastToken'.by = c
            /\ lastToken'.o.type = "response" /\ lastToken'.o.status = 200
            /\ lastToken'.o.json)
         => /\ access_token' = lastToken'.o.access_token
            /\ token_expiry' = now[c] + (IF lastToken'.o.expires_in = 0
                                         THEN 3600
                                         ELSE lastToken'.o.expires_in)]_vars

\* A refresh begun at time 30 and answered at time 60 without a declared
\* lifetime: the token of the response is stored and expires at 3630.
C30_Witness ==
    /\ lastToken.o.type = "response"
    /\ lastToken.o.status = 200
    /\ lastToken.o.json
    /\ lastToken.o.expires_in = 0
    /\ lastToken.o.access_token = "tokA"
    /\ lastToken.now = 30
    /\ clock = 60
    /\ access_token = "tokA"
    /\ token_expiry = 3630

C32_KeyHeaderTrimmed ==
    \A i \in DOMAIN wire :
        wire[i].idempotency_key # NoneStr
        => wire[i].idempotency_key = Strip(wire[i].passed_key)

\* --------------------------------------- SpecConc: concurrent dispatches
\* The request contexts the concurrent callers pass to _request: method,
\* path, JSON body, idempotency key.
Contexts ==
    { <<"GET", "target", <<>>, NoneStr>>,
      <<"POST", "/v2/etims/sale", <<"a">>, <<"k", "1">>>>,
      <<"POST", "/v2/etims/stock", <<"b">>, <<"k", "2">>>> }

\* Caller c calls _request(method, path, json=body, idempotency_key=key),
\* once; the wrapper rewrites the str arguments.
Dispatch(c, x) ==
    /\ pc[c] = "idle"
    /\ calls' = [calls EXCEPT ![c] = @ + 1]
    /\ call' = [call EXCEPT ![c] =
                  [op |-> "_request", method |-> x[1], path |-> x[2],
                   param |-> NoneStr, json |-> x[3],
                   idempotency_key |-> SanitizeArg(x[4]), raw_key |-> x[4],
                   doc |-> <<>>]]
    /\ pc' = [pc EXCEPT ![c] = "waiting"]
    /\ result' = [result EXCEPT ![c] = NoResult]
    /\ UNCHANGED <<built, session, config, loop, kind, access_token, token_expiry,
                   lock, clock, now, wire, lastToken, lastReply, grants>>

\* A token, a token that is inside the margin when the next caller checks,
\* or a refusal.
ConcTokenOutcomes(k) ==
    { Response(200, TRUE, "bodyA", "tokA", 0), Response(200, TRUE, "bodyA", "tokB", 30),
      Response(401, FALSE, "bodyA", None, 0) }

ConcReplyOutcomes(k) ==
    { Response(200, TRUE, "bodyA", None, 0), Response(404, TRUE, "bodyA", None, 0) }

InitConc ==
    /\ kind \in Kinds
    /\ access_token = None
    /\ token_expiry = 0
    /\ grants = NoGrants(None, 0)
    /\ lock = 0
    /\ clock = 0
    /\ pc = [c \in Callers |-> "idle"]
    /\ call = [c \in Callers |-> NoCall]
    /\ now = [c \in Callers |-> 0]
    /\ result = [c \in Callers |-> NoResult]
    /\ calls = [c \in Callers |-> 0]
    /\ wire = <<>>
    /\ lastToken = NoOutcome
    /\ lastReply = NoOutcome
    /\ config = NoConfig
    /\ loop = NoLoop
    /\ session = OpenSession
    /\ built = NoDocs

NextConc ==
    \/ \E c \in Callers : \E x \in Contexts : Dispatch(c, x)
    \/ \E c \in Callers : Acquire(c)
    \/ \E c \in Callers : Check(c)
    \/ \E c \in Callers : \E o \in ConcTokenOutcomes(kind) : TokenRespond(c, o)
    \/ \E c \in Callers : Send(c)
    \/ \E c \in Callers : \E o \in ConcReplyOutcomes(kind) : Reply(c, o)

SpecConc == InitConc /\ [][NextConc]_vars

\* The requests to target paths handed to the HTTP library so far.
Dispatched == { i \in DOMAIN wire : ~IsTokenRequest(wire[i]) }

\* C33: whatever the interleaving of concurrent dispatches on one client,
\* the method, path, body and idempotency key of every outgoing request are
\* those of the call that issued it, and the idempotency key of one call is
\* never on a request issued by another.
C33_RequestContextPerCall ==
    \A i \in Dispatched :
        LET c == wire[i].by IN
        /\ wire[i].method = call[c].method
        /\ wire[i].endpoint = call[c].path
        /\ wire[i].json = call[c].json
        /\ wire[i].idempotency_key = call[c].raw_key
        /\ \A d \in Callers \ {c} :
             (call[d].op # "" /\ call[d].raw_key # call[c].raw_key)
             => wire[i].idempotency_key # call[d].raw_key

\* Two callers with different methods, paths, bodies and keys have their
\* requests in flight at the same time, the later caller's sent first.
C33_Witness ==
    \E c, d \in Callers : \E i, j \in Dispatched :
        /\ c < d
        /\ j < i
        /\ wire[i].by = c /\ wire[j].by = d
        /\ pc[c] = "sent" /\ pc[d] = "sent"
        /\ wire[i].idempotency_key = <<"k", "1">>
        /\ wire[j].idempotency_key = <<"k", "2">>
        /\ wire[i].json # wire[j].json

\* ------------------------------------------ authentication before dispatch
\* The token request with outcome o did not yield a credential.
RefreshFailed(o) == o.type = "transport" \/ o.status # 200 \/ ~o.json

\* The requests to a target path that the current call of caller c has
\* handed to the HTTP library.
SentByCurrentCall(c) ==
    { i \in DOMAIN wire :
        wire[i].by = c /\ wire[i].n = calls[c] /\ ~IsTokenRequest(wire[i]) }

\* C34: while a dispatch has not come back from its own _authenticate, and
\* for good once that _authenticate has failed, the dispatch has sent no
\* request to its target path and its body is in no request.
C34_NoRequestBeforeAuthenticated ==
    \A c \in Callers :
        ( \/ pc[c] \in {"waiting", "locked", "posting"}
          \/ call[c].op # "" /\ lastToken.by = c /\ lastToken.n > 0
                /\ RefreshFailed(lastToken.o) )
        => /\ SentByCurrentCall(c) = {}
           /\ call[c].json # <<>>
                => \A i \in DOMAIN wire :
                     wire[i].by = c => wire[i].json # call[c].json

\* A POST with a body ended in KRAeTIMSAuthError because the token endpoint
\* refused, while the request of another caller was in flight; only the
\* token request of the refused caller is on the wire.
C34_Witness ==
    \E c, d \in Callers :
        /\ c # d
        /\ pc[c] = "done"
        /\ call[c].json = <<"a">>
        /\ result[c].exc = "KRAeTIMSAuthError"
        /\ lastToken.by = c
        /\ lastToken.o.status = 401
        /\ pc[d] = "sent"
        /\ \E i \in DOMAIN wire : wire[i].by = c /\ IsTokenRequest(wire[i])
        /\ SentByCurrentCall(c) = {}

\* ------------------------------------------------- the bearer token sent
\* C35 as stated: every request sent to a target path carries a token in
\* its Authorization header, never an absent one, whatever the token
\* endpoint answered.
C35_BearerNeverAbsent ==
    \A i \in Dispatched : wire[i].bearer # None

\* ------------------------------------ SpecAuthFair: callers make progress
\* The callers of SpecAuth, at one instant, under a scheduler that lets a
\* runnable caller run: a caller that can take the free lock takes it, a
\* caller holding the lock makes its check, and a token request in flight
\* is answered.
NextAuthFair ==
    \/ \E c \in Callers : Acquire(c)
    \/ \E c \in Callers : Check(c)
    \/ \E c \in Callers : \E o \in AuthOutcomes(kind) : TokenRespond(c, o)

SpecAuthFair ==
    /\ InitAuth
    /\ [][NextAuthFair]_vars
    /\ \A c \in Callers :
         /\ WF_vars(Acquire(c))
         /\ WF_vars(Check(c))
         /\ WF_vars(\E o \in AuthOutcomes(kind) : TokenRespond(c, o))

\* C36: the lock is held only by a caller that is inside the with-block of
\* _authenticate, so it is free whenever _authenticate has ended, by return
\* or by any exception; and, token requests being answered, every caller
\* waiting for the lock eventually gets through and returns.
C36_LockNeverLeftHeld ==
    /\ [](\A c \in Callers : lock = c => InRegion(c))
    /\ [](lock # 0 => lock \in Callers)
    /\ \A c \in Callers : (pc[c] = "waiting") ~> (pc[c] = "done")

\* One caller's refresh failed with KRAeTIMSAuthError, another caller took
\* the lock after it, refreshed and returned; the lock is free.
C36_Witness ==
    \E c, d \in Callers :
        /\ c # d
        /\ result[c].exc = "KRAeTIMSAuthError"
        /\ result[d] = Ok
        /\ lastToken.by = d
        /\ access_token = lastToken.o.access_token
        /\ AllDone
        /\ lock = 0

\* ------------------------------------------------- keys of flushed invoices
\* C37: every submission that flush_offline_queue issues is handed to
\* submit_sale without an idempotency key and goes out without an
\* X-TIaaS-Idempotency-Key header, whichever invoice of the list it is.
C37_FlushSendsNoKey ==
    loop.op = Flush =>
      /\ \A j \in 1 .. Len(SalePosts) :
           /\ SalePosts[j].idempotency_key = NoneStr
           /\ SalePosts[j].passed_key = NoneStr
      /\ \A c \in Callers : call[c].op = Flush => call[c].raw_key = NoneStr

\* A flush of the same invoice twice has returned; both submissions went
\* out, the first was answered 503, and neither carried a key.
C37_Witness ==
    /\ Returned(Flush)
    /\ Len(loop.items) = 2
    /\ loop.items[1] = loop.items[2]
    /\ Len(SalePosts) = 2
    /\ loop.ends[1].result.exc = "KRAConnectivityTimeoutError"
    /\ SalePosts[1].idempotency_key = NoneStr
    /\ SalePosts[2].idempotency_key = NoneStr


====
